---- MODULE Spec2Model ----
(***************************************************************************)
(* Storage core of bssdb: the page file store (src/db/file_store.rs), its  *)
(* append/commit transaction and the sharded page cache                    *)
(* (src/db/page_cache.rs).                                                 *)
(*                                                                         *)
(* Unit of storage in this model: one 32-bit word.  The chunk header is    *)
(* two u32 fields, i.e. exactly two words (CHUNK_HEADER_SIZE).  A page is  *)
(* scaled from 1024 words down to PAGE_SIZE words; all arithmetic of the   *)
(* source is kept in terms of PAGE_SIZE and CHUNK_HEADER_SIZE, and         *)
(* CHUNK_HEADER_SIZE < PAGE_SIZE holds as in the source.  The checksum is  *)
(* a bitwise CRC of CrcBits bits over words of WordBits bits, with the     *)
(* all-ones initial value and final inversion of CRC-32.                   *)
(***************************************************************************)
EXTENDS Integers, Sequences, FiniteSets, TLC

\* ---- program constants (scaled, see above) ----
PAGE_SIZE == 4
CHUNK_HEADER_SIZE == 2
CACHE_SHARDS == 2

\* ---- bound of the exploration ----
\* calls of the store's interface (tx, append_chunk, commit, get_chunk,
\* open) and crashes in one run
MaxCalls == 6
NumCallers == 2         \* tasks calling the cache's get
MaxGets == 2            \* calls of the cache's get in one run
CacheShardSize == 2     \* cache_shard_size given to PageCache::new
MaxLruGets == 4         \* calls of the cache's get in a run that fills a shard

WordBits == 2
CrcBits == 2
CrcPoly == 3            \* x^2 + x + 1 without the leading term

VARIABLES
    file,               \* content of the backing file, a sequence of words
    synced,             \* content of the file at the last completed fsync
    page_len,           \* FileStore.page_len
    txpc,               \* "none" | "open" | "committing"
    uncommitted_pages,  \* FileStoreTransaction.uncommitted_pages
    prior_page_n,       \* FileStoreTransaction.prior_page_n
    existing_len,       \* local of commit
    total_written,      \* local of commit
    short,              \* a write_at of the commit wrote less than it was given
    last,               \* outcome of the last writer operation
    calls,              \* interface calls and crashes so far
    rd,                 \* the reader: one get_chunk call in progress
    up,                 \* TRUE while the process holds the opened store
    barriered,          \* page_len established by the last barriered commit
    appended,           \* the append_chunk calls of the current transaction
    committed,          \* the append_chunk calls of committed transactions
    snap,               \* file and page_len when the transaction was started
    rolled              \* the last transaction dropped, until the next commit

storeVars == <<file, synced, page_len, txpc, uncommitted_pages, prior_page_n,
               existing_len, total_written, short, last, calls,
               rd, up, barriered,
               appended, committed, snap, rolled>>

VARIABLES
    cache,              \* per shard: the LruCache, least recently used first
    loads,              \* the shards' loads maps: index -> load, 0 for none
    futures,            \* the shared load futures created so far
    callers,            \* per calling task: where it is in get
    physReads,          \* per index: FileStore::get_chunk calls made
    gets,               \* calls of get so far
    returnedFor,        \* indices for which a call of get has returned
    hits,               \* indices for which a call found a cached entry
    lateStart,          \* indices for which a call started after one returned
    recency,            \* indices put or found in the cache, oldest access first
    cancelled           \* loads a waiter of which was dropped before completion

cacheVars == <<cache, loads, futures, callers, physReads, gets,
               returnedFor, hits, lateStart, recency, cancelled>>

vars == <<storeVars, cacheVars>>

\* ---------------------------------------------------------------------
\* helpers
\* ---------------------------------------------------------------------
Min(a, b) == IF a < b THEN a ELSE b
Max(a, b) == IF a > b THEN a ELSE b

Pow2(n) == IF n = 0 THEN 1 ELSE IF n = 1 THEN 2 ELSE IF n = 2 THEN 4
           ELSE IF n = 3 THEN 8 ELSE 16

\* bit i (0 = least significant) of v
Bit(v, i) == (v \div Pow2(i)) % 2

\* exclusive or of the lowest n bits of a and b
XorBits(a, b, n) ==
    LET x[k \in 0..n] ==
            IF k = 0 THEN 0
            ELSE ((Bit(a, k - 1) + Bit(b, k - 1)) % 2) * Pow2(k - 1) + x[k - 1]
    IN  x[n]

Xor(a, b) == XorBits(a, b, CrcBits)

\* one step of the bitwise CRC register
CrcBitStep(reg, bit) ==
    LET top == (Bit(reg, CrcBits - 1) + bit) % 2
        shifted == (reg * 2) % Pow2(CrcBits)
    IN IF top = 1 THEN Xor(shifted, CrcPoly) ELSE shifted

\* CrcBitStep as a table over registers and bits
CrcBitTable ==
    [reg \in 0..(Pow2(CrcBits) - 1), bit \in 0..1 |-> CrcBitStep(reg, bit)]

\* the register after the n bits of word w, highest bit first
CrcWord(reg, w, n) ==
    LET g[k \in 0..n] ==
            IF k = 0 THEN reg ELSE CrcBitTable[g[k - 1], Bit(w, n - k)]
    IN  g[n]

\* CrcWord as a table over registers and words
CrcWordTable ==
    [reg \in 0..(Pow2(CrcBits) - 1), w \in 0..(Pow2(WordBits) - 1) |->
        CrcWord(reg, w, WordBits)]

\* the register after the words ws
CrcUpdate(reg, ws) ==
    LET u[i \in 0..Len(ws)] ==
            IF i = 0 THEN reg ELSE CrcWordTable[u[i - 1], ws[i]]
    IN  u[Len(ws)]

CrcInit == Pow2(CrcBits) - 1
CrcFinalize(reg) == Xor(reg, Pow2(CrcBits) - 1)
Crc(ws) == CrcFinalize(CrcUpdate(CrcInit, ws))

ZeroPage == [i \in 1..PAGE_SIZE |-> 0]

RECURSIVE borrow_bytes(_)
borrow_bytes(pages) ==
    IF pages = <<>> THEN <<>> ELSE Head(pages) \o borrow_bytes(Tail(pages))

\* the file after a positioned write of data at word offset pos
WriteAt(f, pos, data) ==
    [i \in 1..Max(Len(f), pos + Len(data)) |->
        IF i > pos /\ i <= pos + Len(data) THEN data[i - pos]
        ELSE IF i <= Len(f) THEN f[i] ELSE 0]

\* ---------------------------------------------------------------------
\* inputs
\* ---------------------------------------------------------------------
\* number of pages a payload needs on disk
PagesOf(p) == (Len(p) + CHUNK_HEADER_SIZE) \div PAGE_SIZE

\* a chunk in the on-disk layout that get_chunk parses: header
\* (overflow_page_count, checksum of the payload), then the payload
DiskChunk(p) == <<PagesOf(p) - 1, Crc(p)>> \o p

\* the same chunk with the lowest bit of its first payload word flipped
FlippedChunk(p) ==
    <<PagesOf(p) - 1, Crc(p)>> \o
    [i \in 1..Len(p) |-> IF i = 1 THEN Xor(p[1], 1) ELSE p[i]]

\* payloads whose length + CHUNK_HEADER_SIZE is a multiple of PAGE_SIZE
OnePage == [i \in 1..(PAGE_SIZE - CHUNK_HEADER_SIZE) |-> 1]
TwoPages == [i \in 1..(2 * PAGE_SIZE - CHUNK_HEADER_SIZE) |-> IF i = 1 THEN 2 ELSE 1]
Payloads == {OnePage, TwoPages}

\* values of overflow_size_hint
Hints == {0, 1}
\* hints up to an over-estimate of every chunk of ReadFile
ReadHints == {0, 1, 2}
CacheHints == {0}

\* files the store is opened on
ChunkFile ==
    FlippedChunk(OnePage) \o DiskChunk(TwoPages) \o FlippedChunk(OnePage)

InitFiles == {<<>>, ChunkFile}

\* a file with a two-page chunk between two one-page chunks
ReadFile ==
    DiskChunk(OnePage) \o FlippedChunk(TwoPages) \o DiskChunk(OnePage)

\* a file of one-page chunks, one at every index of LruIndices
LruFile ==
    FlippedChunk(OnePage) \o FlippedChunk(OnePage) \o FlippedChunk(OnePage)
    \o FlippedChunk(OnePage) \o FlippedChunk(OnePage)

\* ---------------------------------------------------------------------
\* FileStore::open
\* ---------------------------------------------------------------------
OpenPageLen(f) == Len(f) \div PAGE_SIZE

OpenFile(f) == SubSeq(f, 1, OpenPageLen(f) * PAGE_SIZE)

\* file.set_len(size): the file cut to size, or left as it is when the call
\* fails; open drops the io::Result
set_len(f, size) == {SubSeq(f, 1, size), f}

\* ---------------------------------------------------------------------
\* FileStoreTransaction::append_chunk
\* ---------------------------------------------------------------------
n_pages(len) == len + CHUNK_HEADER_SIZE \div PAGE_SIZE

\* the loop over the remaining pages: every step pushes a zeroed page and
\* then copies PAGE_SIZE words into it; copy_to_slice panics when the
\* chunk has fewer words left
RECURSIVE CopyPages(_, _, _)
CopyPages(n, chunk, pages) ==
    IF n = 0 THEN [pages |-> pages, chunk |-> chunk, panicked |-> FALSE]
    ELSE LET pushed == Append(pages, ZeroPage) IN
         IF Len(chunk) < PAGE_SIZE
         THEN [pages |-> pushed, chunk |-> chunk, panicked |-> TRUE]
         ELSE CopyPages(n - 1, SubSeq(chunk, PAGE_SIZE + 1, Len(chunk)),
                        [pushed EXCEPT ![Len(pushed)] = SubSeq(chunk, 1, PAGE_SIZE)])

\* result of append_chunk: the buffer afterwards, whether the call
\* returned ("ok") or panicked, and the values it computed
AppendChunk(pages, prior, chunk) ==
    LET len == Len(chunk)
        np == n_pages(len)
        overflow_pages == np - 1
        first_page_index == prior + Len(pages)
        firstLen == PAGE_SIZE - CHUNK_HEADER_SIZE
        out(ps, r) == [pages |-> ps, ret |-> r, idx |-> first_page_index,
                       overflow |-> overflow_pages]
    IN  IF (len + CHUNK_HEADER_SIZE) % PAGE_SIZE /= 0 \/ np < 1
        THEN out(pages, "panic")
        ELSE LET pushed == Append(pages, ZeroPage)
                 at == Len(pushed)
             IN  IF len < firstLen THEN out(pushed, "panic")
                 ELSE LET first == [pushed EXCEPT ![at] =
                                       <<0, 0>> \o SubSeq(chunk, 1, firstLen)]
                          rest == CopyPages(np - 1, SubSeq(chunk, firstLen + 1, len), first)
                          copied == SubSeq(chunk, 1, len - Len(rest.chunk))
                      IN  IF rest.panicked THEN out(rest.pages, "panic")
                          ELSE out([rest.pages EXCEPT ![at] =
                                       <<overflow_pages, Crc(copied)>>
                                       \o SubSeq(rest.pages[at], CHUNK_HEADER_SIZE + 1, PAGE_SIZE)],
                                   "ok")

\* ---------------------------------------------------------------------
\* FileStore::get_chunk
\* ---------------------------------------------------------------------
NoRes == [kind |-> "none", data |-> <<>>]
IdleReader == [pc |-> "idle", idx |-> 0, hint |-> 0, pages |-> <<>>, cap |-> 0,
               total |-> 0, checksum |-> 0, reads |-> 0, res |-> NoRes]

\* number of whole pages in a flat buffer
NPages(ws) == Len(ws) \div PAGE_SIZE

\* read_into_pages_vec: the sizes a positioned read may return, which is
\* any size from 1 to what the buffer and the file allow (0 at the end of
\* the file).  Only the number of whole pages read is used, so of the sizes
\* with the same number of whole pages the smallest is taken.
ReadSizes(f, r) ==
    LET remaining == r.cap - NPages(r.pages)
        offset == (r.idx + NPages(r.pages)) * PAGE_SIZE
        avail == Max(0, Len(f) - offset)
        most == Min(remaining * PAGE_SIZE, avail)
    IN  IF most = 0 THEN {0}
        ELSE {n \in 1..most : n = 1 \/ n % PAGE_SIZE = 0}

\* read_into_pages_vec after the read returned read_bytes
read_into_pages_vec(f, r, read_bytes) ==
    LET offset == (r.idx + NPages(r.pages)) * PAGE_SIZE
        read_pages == read_bytes \div PAGE_SIZE
    IN  IF read_pages = 0
        THEN [r EXCEPT !.pc = "done", !.reads = @ + 1,
                       !.res = [kind |-> "OutOfPages", data |-> <<>>]]
        ELSE [r EXCEPT !.reads = @ + 1,
                       !.pages = @ \o SubSeq(f, offset + 1, offset + read_pages * PAGE_SIZE)]

\* the final check of get_chunk on the assembled pages
CheckChunk(bytes, checksum) ==
    LET content == SubSeq(bytes, CHUNK_HEADER_SIZE + 1, Len(bytes))
    IN  IF checksum = Crc(content)
        THEN [kind |-> "BadChecksum", data |-> <<>>]
        ELSE [kind |-> "Ok", data |-> content]

\* get_chunk after its first read succeeded: parse the header, then
\* truncate, or finish, or go on reading
AfterFirstRead(r) ==
    LET overflow_size == r.pages[1]
        checksum == r.pages[2]
        total_pages == overflow_size + 1
        hdr == [r EXCEPT !.total = total_pages, !.checksum = checksum]
    IN  IF NPages(r.pages) > total_pages
        THEN LET cut == SubSeq(r.pages, 1, total_pages * PAGE_SIZE)
             IN [hdr EXCEPT !.pages = cut, !.pc = "done",
                            !.res = CheckChunk(cut, checksum)]
        ELSE IF NPages(r.pages) < total_pages
        THEN [hdr EXCEPT !.pc = "more", !.cap = Max(@, total_pages)]
        ELSE [hdr EXCEPT !.pc = "done", !.res = CheckChunk(r.pages, checksum)]

\* a loop that reads once more when the pages are already complete
AfterMoreReadAgain(r) ==
    IF r.total >= NPages(r.pages) THEN r
    ELSE [r EXCEPT !.pc = "done", !.res = CheckChunk(r.pages, r.checksum)]

\* get_chunk after a further read succeeded
AfterMoreRead(r) ==
    IF r.total > NPages(r.pages) THEN r
    ELSE [r EXCEPT !.pc = "done", !.res = CheckChunk(r.pages, r.checksum)]

\* ---------------------------------------------------------------------
\* state after FileStore::open on one of the files
\* ---------------------------------------------------------------------
\* record of the last writer operation
Outcome(op, ret, idx, overflow, payload, before, plen) ==
    [op |-> op, ret |-> ret, idx |-> idx, overflow |-> overflow,
     payload |-> payload, before |-> before, plen |-> plen]

NoOutcome == Outcome("none", "none", 0, 0, <<>>, <<>>, 0)

NoRolled == [valid |-> FALSE, start |-> 0, first |-> 0, appends |-> 0,
             pages |-> 0, file |-> <<>>, plen |-> 0]

StoreInitOn(files) ==
    /\ \E f \in files :
         /\ file = OpenFile(f)
         /\ synced = OpenFile(f)
         /\ page_len = OpenPageLen(f)
         /\ barriered = OpenPageLen(f)
    /\ up = TRUE
    /\ appended = <<>>
    /\ committed = {}
    /\ snap = [file |-> <<>>, plen |-> 0]
    /\ rolled = NoRolled
    /\ txpc = "none"
    /\ uncommitted_pages = <<>>
    /\ prior_page_n = 0
    /\ existing_len = 0
    /\ total_written = 0
    /\ short = FALSE
    /\ last = NoOutcome
    /\ calls = 0
    /\ rd = IdleReader

StoreInit == StoreInitOn(InitFiles)

writerVars == <<txpc, uncommitted_pages, prior_page_n, existing_len,
                total_written, short, last>>
lifeVars == <<up, barriered>>
histVars == <<appended, committed, snap, rolled>>

\* ---------------------------------------------------------------------
\* the writer
\* ---------------------------------------------------------------------
\* a snapshot that still counts the pages of the transaction dropped before
PriorPageNStale(plen, dropped) == IF dropped.valid THEN plen + dropped.pages ELSE plen

\* prior_page_n of a new transaction: the page_len loaded by tx
PriorPageN(plen, dropped) == plen

\* FileStoreWriter::tx
tx ==
    /\ up
    /\ txpc = "none"
    /\ calls < MaxCalls
    /\ calls' = calls + 1
    /\ txpc' = "open"
    /\ uncommitted_pages' = <<>>
    /\ prior_page_n' = PriorPageN(page_len, rolled)
    /\ appended' = <<>>
    /\ snap' = [file |-> file, plen |-> page_len]
    /\ last' = Outcome("tx", "ok", page_len, 0, <<>>, <<>>, page_len)
    /\ UNCHANGED <<file, synced, page_len, existing_len, total_written, short, rd,
                   lifeVars, committed, rolled, cacheVars>>

\* FileStoreTransaction::append_chunk; a panic of the call is taken to be
\* caught by the caller, who keeps the transaction
append_chunk ==
    /\ txpc = "open"
    /\ calls < MaxCalls
    /\ calls' = calls + 1
    /\ \E chunk \in Payloads :
         LET r == AppendChunk(uncommitted_pages, prior_page_n, chunk) IN
         /\ uncommitted_pages' = r.pages
         /\ last' = Outcome("append_chunk", r.ret, r.idx, r.overflow, chunk,
                            uncommitted_pages, page_len)
         /\ appended' = Append(appended, [idx |-> r.idx, payload |-> chunk,
                                          ret |-> r.ret, overflow |-> r.overflow])
    /\ UNCHANGED <<file, synced, page_len, txpc, prior_page_n, existing_len,
                   total_written, short, rd, lifeVars, committed, snap, rolled, cacheVars>>

\* a drop that counts the buffered pages into page_len
PageLenAfterDropCounted(cur, buffered) == cur + buffered

\* page_len when a transaction is dropped: the struct has no Drop, its
\* fields are freed and the store is not touched
PageLenAfterDrop(cur, buffered) == cur

\* the transaction goes out of scope without commit
drop_tx ==
    /\ txpc = "open"
    /\ txpc' = "none"
    /\ page_len' = PageLenAfterDrop(page_len, Len(uncommitted_pages))
    /\ uncommitted_pages' = <<>>
    /\ last' = Outcome("drop", "ok", prior_page_n, 0, <<>>, uncommitted_pages, page_len)
    /\ rolled' = [valid |-> TRUE, start |-> prior_page_n,
                  first |-> IF appended = <<>> THEN prior_page_n ELSE appended[1].idx,
                  appends |-> Len(appended), pages |-> Len(uncommitted_pages),
                  file |-> snap.file, plen |-> snap.plen]
    /\ UNCHANGED <<file, synced, prior_page_n, existing_len,
                   total_written, short, calls, rd, lifeVars, appended, committed, snap, cacheVars>>

\* commit up to its first await: the assertion and the locals
commit_start ==
    /\ txpc = "open"
    /\ calls < MaxCalls
    /\ calls' = calls + 1
    /\ IF Len(uncommitted_pages) > 0
       THEN /\ txpc' = "committing"
            /\ existing_len' = page_len
            /\ total_written' = 0
            /\ short' = FALSE
            /\ rolled' = NoRolled
            /\ UNCHANGED <<uncommitted_pages, last>>
       ELSE /\ txpc' = "none"
            /\ last' = Outcome("commit", "panic", prior_page_n, 0, <<>>,
                               uncommitted_pages, page_len)
            /\ UNCHANGED <<uncommitted_pages, existing_len, total_written, short, rolled>>
    /\ UNCHANGED <<file, synced, page_len, prior_page_n, rd, lifeVars,
                   appended, committed, snap, cacheVars>>

\* page_len stored before the writes and the barrier are over
PageLenStoredEarly(cur, existing, n) == existing + n

\* the value of page_len while the writes of commit are in progress
PageLenDuringWrite(cur, existing, n) == cur

\* the sizes a write_at of `remaining` words may return, which is any size
\* from 1 to remaining; taken are one word, a whole page and everything,
\* which together reach every offset of the buffer
\* a write_at that starts every time at the extent's first byte
WriteOffsetRestart(starting_pos, total) == starting_pos

\* the offset of the next write_at: past what was written so far
WriteOffset(starting_pos, total) == starting_pos + total

WriteSizes(remaining) ==
    {n \in 1..remaining : n = 1 \/ n = PAGE_SIZE \/ n = remaining}

\* one write_at of the loop returned `written`
commit_write ==
    /\ txpc = "committing"
    /\ LET bytes == borrow_bytes(uncommitted_pages)
           starting_pos == existing_len * PAGE_SIZE
       IN  /\ Len(bytes) > total_written
           /\ \E written \in WriteSizes(Len(bytes) - total_written) :
                /\ file' = WriteAt(file, WriteOffset(starting_pos, total_written),
                                   SubSeq(bytes, total_written + 1, total_written + written))
                /\ short' = (short \/ written < Len(bytes) - total_written)
                /\ total_written' = total_written + written
    /\ page_len' = PageLenDuringWrite(page_len, existing_len, Len(uncommitted_pages))
    /\ UNCHANGED <<synced, txpc, uncommitted_pages, prior_page_n, existing_len,
                   last, calls, rd, lifeVars, histVars, cacheVars>>

\* page_len advanced although commit returns an error
PageLenAdvancedOnError(cur, existing, n) == existing + n

\* page_len after commit returned an error
PageLenOnError(cur, existing, n) == cur

\* a commit that leaves the buffer with the caller
BufferKept(pages) == pages

\* what is left of the buffer after commit(self) returned
BufferAfterCommit(pages) == <<>>

\* one write_at of the loop returned an I/O error
commit_write_error ==
    /\ txpc = "committing"
    /\ Len(borrow_bytes(uncommitted_pages)) > total_written
    /\ txpc' = "none"
    /\ page_len' = PageLenOnError(page_len, existing_len, Len(uncommitted_pages))
    /\ uncommitted_pages' = BufferAfterCommit(uncommitted_pages)
    /\ last' = Outcome("commit", "io_error", prior_page_n, 0, <<>>,
                       uncommitted_pages, page_len)
    /\ UNCHANGED <<file, synced, prior_page_n, existing_len, total_written, short,
                   calls, rd, lifeVars, histVars, cacheVars>>

\* the loop is over, fsync_ordered returned Ok: page_len is stored
commit_fsync ==
    /\ txpc = "committing"
    /\ Len(borrow_bytes(uncommitted_pages)) <= total_written
    /\ synced' = file
    /\ page_len' = existing_len + Len(uncommitted_pages)
    /\ txpc' = "none"
    /\ uncommitted_pages' = BufferAfterCommit(uncommitted_pages)
    /\ last' = Outcome("commit", "ok", prior_page_n, 0, <<>>,
                       uncommitted_pages, page_len)
    /\ barriered' = existing_len + Len(uncommitted_pages)
    /\ committed' = committed \cup
                      { [idx |-> appended[i].idx, payload |-> appended[i].payload] :
                          i \in 1..Len(appended) }
    /\ UNCHANGED <<file, prior_page_n, existing_len, total_written, short,
                   calls, rd, up, appended, snap, rolled, cacheVars>>

\* the loop is over, fsync_ordered returned an I/O error
commit_fsync_error ==
    /\ txpc = "committing"
    /\ Len(borrow_bytes(uncommitted_pages)) <= total_written
    /\ txpc' = "none"
    /\ page_len' = PageLenOnError(page_len, existing_len, Len(uncommitted_pages))
    /\ uncommitted_pages' = BufferAfterCommit(uncommitted_pages)
    /\ last' = Outcome("commit", "io_error", prior_page_n, 0, <<>>,
                       uncommitted_pages, page_len)
    /\ UNCHANGED <<file, synced, prior_page_n, existing_len, total_written, short,
                   calls, rd, lifeVars, histVars, cacheVars>>

\* ---------------------------------------------------------------------
\* a reader: one get_chunk call at a time
\* ---------------------------------------------------------------------
get_chunk_call_on(hints) ==
    /\ up
    /\ rd.pc = "idle"
    /\ calls < MaxCalls
    /\ calls' = calls + 1
    /\ \E idx \in 0..NPages(file), hint \in hints :
         rd' = [IdleReader EXCEPT !.pc = "first", !.idx = idx, !.hint = hint,
                                  !.cap = hint + 1]
    /\ UNCHANGED <<file, synced, page_len, writerVars, lifeVars, histVars, cacheVars>>

get_chunk_call == get_chunk_call_on(Hints)

\* get_chunk called with any of the hints of ReadHints
read_call == get_chunk_call_on(ReadHints)

\* the first read_into_pages_vec and the code up to the next await
get_chunk_first ==
    /\ rd.pc = "first"
    /\ \E n \in ReadSizes(file, rd) :
         LET r == read_into_pages_vec(file, rd, n) IN
         rd' = IF r.pc = "done" THEN r ELSE AfterFirstRead(r)
    /\ UNCHANGED <<file, synced, page_len, writerVars, calls, lifeVars, histVars, cacheVars>>

\* a read_into_pages_vec of the while loop
get_chunk_more ==
    /\ rd.pc = "more"
    /\ \E n \in ReadSizes(file, rd) :
         LET r == read_into_pages_vec(file, rd, n) IN
         rd' = IF r.pc = "done" THEN r ELSE AfterMoreRead(r)
    /\ UNCHANGED <<file, synced, page_len, writerVars, calls, lifeVars, histVars, cacheVars>>

\* read_at returned an I/O error
get_chunk_io_error ==
    /\ rd.pc \in {"first", "more"}
    /\ rd' = [rd EXCEPT !.pc = "done", !.reads = @ + 1,
                        !.res = [kind |-> "Io", data |-> <<>>]]
    /\ UNCHANGED <<file, synced, page_len, writerVars, calls, lifeVars, histVars, cacheVars>>

\* the caller takes the result
get_chunk_return ==
    /\ rd.pc = "done"
    /\ rd' = IdleReader
    /\ UNCHANGED <<file, synced, page_len, writerVars, calls, lifeVars, histVars, cacheVars>>

\* ---------------------------------------------------------------------
\* crash and reopen
\* ---------------------------------------------------------------------
\* the file after a loss of power: the first n words as written, the rest
\* as of the last completed fsync
Survive(n) ==
    [i \in 1..Max(n, Len(synced)) |-> IF i <= n THEN file[i] ELSE synced[i]]

Down(point) ==
    /\ up' = FALSE
    /\ calls' = calls + 1
    /\ txpc' = "none"
    /\ uncommitted_pages' = <<>>
    /\ rd' = IdleReader
    /\ last' = Outcome("crash", point, prior_page_n, 0, <<>>,
                       uncommitted_pages, page_len)
    /\ rolled' = NoRolled
    /\ UNCHANGED <<page_len, prior_page_n, existing_len, total_written, short,
                   barriered, appended, committed, snap, cacheVars>>

\* the process dies; the file keeps everything written so far
process_crash ==
    /\ up
    /\ calls < MaxCalls
    /\ Down(txpc)
    /\ UNCHANGED <<file, synced>>

\* the machine loses power; writes not covered by an fsync may be lost
power_loss ==
    /\ up
    /\ calls < MaxCalls
    /\ \E f \in {Survive(n) : n \in 0..Len(file)} :
         /\ file' = f
         /\ synced' = f
    /\ Down(txpc)

\* FileStore::open on the file as it is
open ==
    /\ ~up
    /\ calls < MaxCalls
    /\ calls' = calls + 1
    /\ up' = TRUE
    /\ page_len' = OpenPageLen(file)
    /\ file' \in set_len(file, OpenPageLen(file) * PAGE_SIZE)
    /\ last' = Outcome("open", last.ret, 0, 0, <<>>, <<>>, page_len)
    /\ UNCHANGED <<synced, txpc, uncommitted_pages, prior_page_n, existing_len,
                   total_written, short, rd, barriered, histVars, cacheVars>>

\* ---------------------------------------------------------------------
\* PageCache / CacheShard (page_cache.rs)
\* ---------------------------------------------------------------------
Callers == 1..NumCallers
CacheIndices == {0, 2}
\* indices of one shard, more than the shard holds
LruIndices == {0, 2, 4}
AllIndices == CacheIndices \cup LruIndices
\* the task that calls get in the run that fills a shard
LruCallers == {1}
LoadIds == 1..Max(MaxGets, MaxLruGets)
Shards == 0..(CACHE_SHARDS - 1)

\* PageCache::get: the shard of an index
ShardOf(idx) == idx % CACHE_SHARDS

IdleCaller == [pc |-> "idle", idx |-> 0, hint |-> 0, load |-> 0, res |-> NoRes,
               conc |-> {}]

CacheInit ==
    /\ cache = [sh \in Shards |-> <<>>]
    /\ loads = [i \in AllIndices |-> 0]
    /\ futures = <<>>
    /\ callers = [c \in Callers |-> IdleCaller]
    /\ physReads = [i \in AllIndices |-> 0]
    /\ gets = 0
    /\ returnedFor = {}
    /\ hits = {}
    /\ lateStart = {}
    /\ recency = <<>>
    /\ cancelled = {}

\* LruCache: position of idx in a shard's cache, 0 when absent
LruPos(c, idx) ==
    IF \E k \in 1..Len(c) : c[k].idx = idx
    THEN CHOOSE k \in 1..Len(c) : c[k].idx = idx
    ELSE 0

LruWithout(c, k) == SubSeq(c, 1, k - 1) \o SubSeq(c, k + 1, Len(c))

\* LruCache::get on a present entry: it becomes the most recently used
LruTouch(c, idx) ==
    LET k == LruPos(c, idx) IN Append(LruWithout(c, k), c[k])

\* LruCache::put: insert or replace as most recently used; over capacity
\* the least recently used entry goes
LruPut(c, idx, data) ==
    LET k == LruPos(c, idx)
        base == IF k = 0 THEN c ELSE LruWithout(c, k)
        added == Append(base, [idx |-> idx, data |-> data])
    IN  IF Len(added) > CacheShardSize THEN Tail(added) ELSE added

\* the reader at the call of get_chunk(idx, hint)
CallReader(idx, hint) ==
    [IdleReader EXCEPT !.pc = "first", !.idx = idx, !.hint = hint, !.cap = hint + 1]

\* the reader after one more read of get_chunk on file f: the read fails,
\* or returns one of the sizes it may return
ReadSteps(f, r) ==
    {[r EXCEPT !.pc = "done", !.reads = @ + 1, !.res = [kind |-> "Io", data |-> <<>>]]}
    \cup
    { LET r1 == read_into_pages_vec(f, r, n)
      IN  IF r1.pc = "done" THEN r1
          ELSE IF r.pc = "first" THEN AfterFirstRead(r1)
          ELSE AfterMoreRead(r1)
      : n \in ReadSizes(f, r) }

\* some task is awaiting the shared future l and nothing else polls it
PolledUnlessCancelled(l) ==
    /\ \E c \in Callers : callers[c].pc = "await" /\ callers[c].load = l
    /\ l \notin cancelled

\* some task is awaiting the shared future l, which is what polls it
Polled(l) == \E c \in Callers : callers[c].pc = "await" /\ callers[c].load = l

\* the callers inside a call of get for idx
InCall(idx) ==
    {d \in Callers : callers[d].pc \in {"checked", "await"} /\ callers[d].idx = idx}

\* the order of last access after an access to idx
RecencyTouch(r, idx) == SelectSeq(r, LAMBDA x : x /= idx) \o <<idx>>

\* a hit that leaves the order of the entries as it is
LruNoTouch(c, idx) == c

\* the cache lookup of a present entry (line 29): LruCache::get
LruGet(c, idx) == LruTouch(c, idx)

\* get is called with an index of `indices` and looks into the
\* completed-result cache (line 29)
cache_get_on(c, indices, budget) ==
    /\ callers[c].pc \in {"idle", "done", "cancelled"}
    /\ gets < budget
    /\ gets' = gets + 1
    /\ \E idx \in indices, hint \in CacheHints :
         LET sh == ShardOf(idx)
             k == LruPos(cache[sh], idx)
             others == [d \in Callers |-> [callers[d] EXCEPT !.conc = @ \ {c}]]
         IN  /\ lateStart' = IF idx \in returnedFor THEN lateStart \cup {idx}
                             ELSE lateStart
             /\ IF k /= 0
                THEN /\ callers' = [others EXCEPT ![c] =
                            [pc |-> "done", idx |-> idx, hint |-> hint, load |-> 0,
                             res |-> [kind |-> "Ok", data |-> cache[sh][k].data],
                             conc |-> InCall(idx) \ {c}]]
                     /\ cache' = [cache EXCEPT ![sh] = LruGet(@, idx)]
                     /\ recency' = RecencyTouch(recency, idx)
                     /\ hits' = hits \cup {idx}
                     /\ returnedFor' = returnedFor \cup {idx}
                ELSE /\ callers' = [others EXCEPT ![c] =
                            [pc |-> "checked", idx |-> idx, hint |-> hint, load |-> 0,
                             res |-> NoRes, conc |-> InCall(idx) \ {c}]]
                     /\ UNCHANGED <<cache, recency, hits, returnedFor>>
    /\ UNCHANGED <<loads, futures, physReads, cancelled, storeVars>>

cache_get(c) == cache_get_on(c, CacheIndices, MaxGets)

\* get called by tasks that all ask for one index
same_get(c) == cache_get_on(c, {0}, MaxGets)

\* get called with the indices of one shard
lru_get(c) == cache_get_on(c, LruIndices, MaxLruGets)

\* a lookup in loads that finds nothing
InProgressMissed(ls, idx) == 0

\* loads.get(&idx) (line 33): the load registered for idx, 0 for none
InProgress(ls, idx) == ls[idx]

\* get takes the loads lock: it attaches to the load in progress, or
\* creates and registers a new one (lines 31-52)
cache_lock_loads(c) ==
    /\ callers[c].pc = "checked"
    /\ LET idx == callers[c].idx
           in_progress == InProgress(loads, idx)
       IN
       IF in_progress /= 0
       THEN /\ callers' = [callers EXCEPT ![c].pc = "await", ![c].load = in_progress]
            /\ UNCHANGED <<loads, futures>>
       ELSE /\ futures' = Append(futures, [idx |-> idx, hint |-> callers[c].hint,
                                           pc |-> "created", res |-> NoRes,
                                           reads |-> 0, rd |-> IdleReader])
            /\ loads' = [loads EXCEPT ![idx] = Len(futures) + 1]
            /\ callers' = [callers EXCEPT ![c].pc = "await", ![c].load = Len(futures) + 1]
    /\ UNCHANGED <<cache, physReads, gets, returnedFor, hits, lateStart,
                   recency, cancelled, storeVars>>

\* the load future is polled for the first time: store.get_chunk is called
load_start(l) ==
    /\ l <= Len(futures)
    /\ futures[l].pc = "created"
    /\ Polled(l)
    /\ futures' = [futures EXCEPT ![l].pc = "reading", ![l].reads = @ + 1,
                                  ![l].rd = CallReader(futures[l].idx, futures[l].hint)]
    /\ physReads' = [physReads EXCEPT ![futures[l].idx] = @ + 1]
    /\ UNCHANGED <<cache, loads, callers, gets, returnedFor, hits, lateStart,
                   recency, cancelled, storeVars>>

\* store.get_chunk goes on by one read; when it returns with that, a
\* success is put into the cache (lines 42-44)
load_read(l) ==
    /\ l <= Len(futures)
    /\ futures[l].pc = "reading"
    /\ Polled(l)
    /\ \E r \in ReadSteps(file, futures[l].rd) :
         IF r.pc /= "done"
         THEN /\ futures' = [futures EXCEPT ![l].rd = r]
              /\ UNCHANGED <<cache, recency>>
         ELSE /\ futures' = [futures EXCEPT ![l].pc = "read", ![l].res = r.res,
                                            ![l].rd = IdleReader]
              /\ cache' = IF r.res.kind = "Ok"
                          THEN [cache EXCEPT ![ShardOf(futures[l].idx)] =
                                   LruPut(@, futures[l].idx, r.res.data)]
                          ELSE cache
              /\ recency' = IF r.res.kind = "Ok"
                            THEN RecencyTouch(recency, futures[l].idx)
                            ELSE recency
    /\ UNCHANGED <<loads, callers, physReads, gets, returnedFor, hits, lateStart,
                   cancelled, storeVars>>

\* a failed load that leaves its marker in loads
MarkerKeptOnError(ls, idx, res) ==
    IF res.kind = "Ok" THEN [ls EXCEPT ![idx] = 0] ELSE ls

\* self.loads.lock().remove(&idx) (line 45), whatever the result
MarkerAfterLoad(ls, idx, res) == [ls EXCEPT ![idx] = 0]

\* the load removes the marker of its index and completes (lines 45-47)
load_remove(l) ==
    /\ l <= Len(futures)
    /\ futures[l].pc = "read"
    /\ Polled(l)
    /\ loads' = MarkerAfterLoad(loads, futures[l].idx, futures[l].res)
    /\ futures' = [futures EXCEPT ![l].pc = "done"]
    /\ UNCHANGED <<cache, callers, physReads, gets, returnedFor, hits, lateStart,
                   recency, cancelled, storeVars>>

\* a task awaiting a completed load gets its result
cache_return(c) ==
    /\ callers[c].pc = "await"
    /\ futures[callers[c].load].pc = "done"
    /\ callers' = [callers EXCEPT ![c].pc = "done",
                                  ![c].res = futures[callers[c].load].res]
    /\ returnedFor' = returnedFor \cup {callers[c].idx}
    /\ UNCHANGED <<cache, loads, futures, physReads, gets, hits, lateStart,
                   recency, cancelled, storeVars>>

\* a task is dropped while it awaits a load that has not completed
cache_cancel(c) ==
    /\ callers[c].pc = "await"
    /\ futures[callers[c].load].pc /= "done"
    /\ callers' = [callers EXCEPT ![c].pc = "cancelled"]
    /\ cancelled' = cancelled \cup {callers[c].load}
    /\ UNCHANGED <<cache, loads, futures, physReads, gets, returnedFor, hits,
                   lateStart, recency, storeVars>>

Init == StoreInit /\ CacheInit

Next ==
    \/ tx
    \/ append_chunk
    \/ drop_tx
    \/ commit_start
    \/ commit_write
    \/ commit_write_error
    \/ commit_fsync
    \/ commit_fsync_error
    \/ get_chunk_call
    \/ get_chunk_first
    \/ get_chunk_more
    \/ get_chunk_io_error
    \/ get_chunk_return

\* a store that stays open, its writer and a reader
Spec == Init /\ [][Next]_vars

CrashNext ==
    \/ Next
    \/ process_crash
    \/ power_loss
    \/ open

\* a store whose process may crash and be restarted
CrashSpec == Init /\ [][CrashNext]_vars

CacheNext ==
    \/ \E c \in Callers : cache_get(c)
    \/ \E c \in Callers : cache_lock_loads(c)
    \/ \E l \in LoadIds : load_start(l)
    \/ \E l \in LoadIds : load_read(l)
    \/ \E l \in LoadIds : load_remove(l)
    \/ \E c \in Callers : cache_return(c)

\* the page cache in front of an opened store that is not written to
CacheSpec == Init /\ [][CacheNext]_vars

ReadInit == StoreInitOn({ReadFile}) /\ CacheInit

ReadNext ==
    \/ read_call
    \/ get_chunk_first
    \/ get_chunk_more
    \/ get_chunk_io_error
    \/ get_chunk_return

\* readers of a store that is not written to
ReadSpec == ReadInit /\ [][ReadNext]_vars

CancelInit == StoreInitOn({ChunkFile}) /\ CacheInit

CancelNext ==
    \/ \E c \in Callers : same_get(c)
    \/ \E c \in Callers : cache_lock_loads(c)
    \/ \E l \in LoadIds : load_start(l)
    \/ \E l \in LoadIds : load_read(l)
    \/ \E l \in LoadIds : load_remove(l)
    \/ \E c \in Callers : cache_return(c)
    \/ \E c \in Callers : cache_cancel(c)

\* the executor goes on polling every task that is awaiting, and with it
\* the load the task awaits; whether a task is dropped is up to its owner
CancelFairness ==
    /\ WF_vars(\E l \in LoadIds : load_start(l) \/ load_read(l) \/ load_remove(l))
    /\ WF_vars(\E c \in Callers : cache_return(c))

\* the page cache with tasks that may be dropped while they wait
CancelSpec == CancelInit /\ [][CancelNext]_vars /\ CancelFairness

LruInit == StoreInitOn({LruFile}) /\ CacheInit

LruNext ==
    \/ \E c \in LruCallers : lru_get(c)
    \/ \E c \in Callers : cache_lock_loads(c)
    \/ \E l \in LoadIds : load_start(l)
    \/ \E l \in LoadIds : load_read(l)
    \/ \E l \in LoadIds : load_remove(l)
    \/ \E c \in Callers : cache_return(c)

\* the page cache asked for more indices of one shard than the shard holds
LruSpec == LruInit /\ [][LruNext]_vars

\* ---------------------------------------------------------------------
\* properties
\* ---------------------------------------------------------------------
\* the words of page i of a file
PageWords(i) == (i * PAGE_SIZE + 1)..((i + 1) * PAGE_SIZE)

RECURSIVE SumPages(_, _)
\* pages needed by the first n chunks of a list of append_chunk calls
SumPages(as, n) ==
    IF n = 0 THEN 0 ELSE SumPages(as, n - 1) + PagesOf(as[n].payload)

\* C1: at every moment of a running store every page below page_len is
\* completely in the file and is covered by a completed fsync, and the
\* pages a successful commit added are the pages of its buffer.
C1_PageLenCoversDurablePages ==
    /\ \A i \in 0..(page_len - 1) :
          /\ Len(file) >= (i + 1) * PAGE_SIZE
          /\ Len(synced) >= (i + 1) * PAGE_SIZE
          /\ \A w \in PageWords(i) : synced[w] = file[w]
    /\ (last.op = "commit" /\ last.ret = "ok") =>
          /\ page_len = last.plen + Len(last.before)
          /\ SubSeq(file, last.plen * PAGE_SIZE + 1, page_len * PAGE_SIZE)
               = borrow_bytes(last.before)

\* a commit has succeeded after an earlier one had failed with more pages
\* written than the second one has
C1_Witness ==
    /\ last.op = "commit" /\ last.ret = "ok"
    /\ Len(file) > page_len * PAGE_SIZE
    /\ page_len > last.plen

\* C2: after a crash in the middle of commit, the reopened store has the
\* page_len of the last commit whose barrier completed.
C2_ReopenAtBarrieredLength ==
    (up /\ last.op = "open" /\ last.ret = "committing") => page_len = barriered

\* C3: append_chunk of a payload returns, and once its transaction is
\* committed get_chunk(idx, 0) yields exactly that payload.
C3_RoundTrip ==
    /\ last.op = "append_chunk" => last.ret = "ok"
    /\ \A c \in committed :
          (rd.pc = "done" /\ rd.idx = c.idx /\ rd.hint = 0 /\ rd.res.kind /= "Io")
             => rd.res = [kind |-> "Ok", data |-> c.payload]

\* C4: get_chunk answers BadChecksum exactly when the checksum of the
\* header differs from the CRC of the payload it assembled.
C4_BadChecksumIffMismatch ==
    (rd.pc = "done" /\ rd.res.kind \in {"Ok", "BadChecksum"}) =>
        ((rd.res.kind = "BadChecksum") <=>
            (rd.checksum /= Crc(SubSeq(rd.pages, CHUNK_HEADER_SIZE + 1, Len(rd.pages)))))

\* C5: after a successful commit page_len is the old page_len plus the
\* pages of the chunks appended, and chunk i got the index old page_len
\* plus the pages of the chunks before it.
C5_ContiguousIndices ==
    (last.op = "commit" /\ last.ret = "ok") =>
        /\ page_len = last.plen + SumPages(appended, Len(appended))
        /\ \A i \in 1..Len(appended) :
              /\ appended[i].ret = "ok"
              /\ appended[i].idx = last.plen + SumPages(appended, i - 1)

\* C6: append_chunk adds (len + 8) / PAGE_SIZE pages to the buffer and
\* returns that number less one, which is also the header's first field.
C6_PagesAdded ==
    last.op = "append_chunk" =>
        /\ last.ret = "ok"
        /\ Len(uncommitted_pages) = Len(last.before) + PagesOf(last.payload)
        /\ last.overflow = PagesOf(last.payload) - 1
        /\ uncommitted_pages[Len(last.before) + 1][1] = PagesOf(last.payload) - 1

\* C7: after a transaction was dropped, page_len and the file are what
\* they were when it was started, and the next transaction starts at, and
\* gives its first chunk, the index the dropped one used.
C7_Rollback ==
    rolled.valid =>
        /\ page_len = rolled.plen
        /\ file = rolled.file
        /\ txpc = "open" =>
              /\ prior_page_n = rolled.start
              /\ appended /= <<>> => appended[1].idx = rolled.first

\* a transaction with appends was dropped and the next one has appended
C7_Witness ==
    /\ rolled.valid
    /\ rolled.appends > 0
    /\ rolled.plen > 0
    /\ txpc = "open"
    /\ appended /= <<>>

\* C8: when commit returns an I/O error, page_len is what it was when
\* commit was called.
C8_ErrorKeepsPageLen ==
    (last.op = "commit" /\ last.ret = "io_error") => page_len = existing_len

\* commit failed after part of its buffer was written
C8_Witness ==
    /\ last.op = "commit" /\ last.ret = "io_error"
    /\ total_written > PAGE_SIZE
    /\ Len(file) > page_len * PAGE_SIZE

\* C9 as stated: after commit failed the transaction is still there with
\* all its pages.
C9_TransactionKept ==
    (last.op = "commit" /\ last.ret = "io_error") =>
        (txpc = "open" /\ uncommitted_pages = last.before)

\* C9 amended: commit consumes the transaction also when it fails; the
\* buffer is gone and the writer is free for a new transaction.
C9_TransactionConsumed ==
    (last.op = "commit" /\ last.ret = "io_error") =>
        (txpc = "none" /\ uncommitted_pages = <<>> /\ last.before /= <<>>)

\* commit failed at the barrier, after the whole buffer was written
C9_Witness ==
    /\ last.op = "commit" /\ last.ret = "io_error"
    /\ total_written = Len(borrow_bytes(last.before))
    /\ txpc = "none"

\* C10: when every call of get for an index started before any call for
\* it had returned, and none found a cached entry, at most one
\* FileStore::get_chunk is made for the index, and one once a call returned.
C10_OnePhysicalRead ==
    \A idx \in CacheIndices :
        (idx \notin lateStart /\ idx \notin hits) =>
            /\ physReads[idx] <= 1
            /\ idx \in returnedFor => physReads[idx] = 1

C12_SameOutcome ==
    /\ \A c \in Callers, d \in Callers :
          (callers[c].pc = "done" /\ callers[d].pc = "done" /\ d \in callers[c].conc)
             => callers[c].res = callers[d].res
    /\ \A c \in Callers :
          (callers[c].pc = "done" /\ callers[c].load /= 0)
             => callers[c].res = futures[callers[c].load].res

\* C13: a load runs store.get_chunk at most once, a task that got its
\* result from a load got the result of that load's one get_chunk, and a
\* task that awaits a load of which another waiter was dropped eventually
\* gets that result, unless it is dropped itself.
C13_CancellationKeepsLoad ==
    /\ [](/\ \A l \in 1..Len(futures) : futures[l].reads <= 1
          /\ \A c \in Callers :
                (callers[c].pc = "done" /\ callers[c].load /= 0)
                   => /\ futures[callers[c].load].reads = 1
                      /\ callers[c].res = futures[callers[c].load].res)
    /\ \A c \in Callers :
          (callers[c].pc = "await" /\ callers[c].load \in cancelled)
             ~> (callers[c].pc \in {"done", "cancelled"})

\* a task got the payload of a load whose other waiter had been dropped
C13_Witness ==
    \E c \in Callers :
        /\ callers[c].pc = "done"
        /\ callers[c].load \in cancelled
        /\ callers[c].res.kind = "Ok"
        /\ callers[c].res = futures[callers[c].load].res
        /\ \E d \in Callers : /\ callers[d].pc = "cancelled"
                              /\ callers[d].load = callers[c].load

\* the indices of shard sh in the order of their last access
ShardRecency(sh) == SelectSeq(recency, LAMBDA x : ShardOf(x) = sh)

\* the last n elements of a sequence
LastN(q, n) == SubSeq(q, Len(q) - Min(n, Len(q)) + 1, Len(q))

\* C14: a shard's cache never holds more than cache_shard_size entries, and
\* it holds exactly the entries of the indices accessed last, a hit and an
\* insertion both counting as an access: what was evicted is what was
\* accessed least recently.
C14_LruEviction ==
    \A sh \in Shards :
        /\ Len(cache[sh]) <= CacheShardSize
        /\ [k \in 1..Len(cache[sh]) |-> cache[sh][k].idx]
             = LastN(ShardRecency(sh), CacheShardSize)

\* a full shard whose oldest entry has been refreshed by a hit took a
\* further entry and evicted another one
C14_Witness ==
    \E sh \in Shards :
        /\ Len(cache[sh]) = CacheShardSize
        /\ Len(ShardRecency(sh)) > CacheShardSize
        /\ cache[sh][1].idx \in hits
        /\ cache[sh][1].idx < ShardRecency(sh)[1]
        /\ ShardRecency(sh)[1] < cache[sh][Len(cache[sh])].idx

\* C17: every load that has not resolved is the one registered in loads
\* for its index, a resolved load is registered nowhere, and so at most one
\* load per index is unresolved and at most one store.get_chunk per index
\* is executing.
C17_OneLoadPerIndex ==
    /\ \A l \in 1..Len(futures) :
          IF futures[l].pc = "done"
          THEN \A i \in AllIndices : loads[i] /= l
          ELSE loads[futures[l].idx] = l
    /\ \A i \in AllIndices :
          /\ loads[i] /= 0 => (loads[i] <= Len(futures) /\ futures[loads[i]].idx = i)
          /\ Cardinality({l \in 1..Len(futures) :
                            futures[l].idx = i /\ futures[l].pc = "reading"}) <= 1

\* a second load for an index is registered and reading after the first
\* one has resolved
C17_Witness ==
    \E l1 \in 1..Len(futures), l2 \in 1..Len(futures) :
        /\ l1 < l2
        /\ futures[l1].idx = futures[l2].idx
        /\ futures[l1].pc = "done"
        /\ futures[l2].pc = "reading"
        /\ loads[futures[l2].idx] = l2

\* the result of get_chunk for the chunk that the header at page idx of
\* file f declares, read whole and with nothing else
DeclaredChunk(f, idx) ==
    LET total == f[idx * PAGE_SIZE + 1] + 1
        checksum == f[idx * PAGE_SIZE + 2]
    IN  CheckChunk(SubSeq(f, idx * PAGE_SIZE + 1, (idx + total) * PAGE_SIZE), checksum)

\* C15: a get_chunk whose hint stays inside the file and that assembled a
\* chunk returns what the chunk declared by the header gives, whatever the
\* hint was.
C15_HintIndependence ==
    (/\ rd.pc = "done"
     /\ rd.res.kind \in {"Ok", "BadChecksum"}
     /\ rd.idx + rd.hint + 1 <= NPages(file)
     /\ rd.idx + rd.total <= NPages(file))
        => rd.res = DeclaredChunk(file, rd.idx)

\* C16: FileStore::open sets page_len to floor(len / PAGE_SIZE) of the file it
\* finds and leaves the file exactly page_len * PAGE_SIZE long.
C16_OpenTruncates ==
    [][(~up /\ up') =>
          /\ page_len' = Len(file) \div PAGE_SIZE
          /\ Len(file') = page_len' * PAGE_SIZE]_vars

\* the words of f at offsets pos .. pos + n - 1
ExtentAt(f, pos, n) == SubSeq(f, pos + 1, pos + n)

\* C18: whatever the write_at calls return, commit writes its buffer piece by
\* piece behind prior_page_n * PAGE_SIZE: what was written so far is the
\* buffer's prefix at that offset, a write touches only the words behind the
\* ones written before and never ends the call, and commit returns Ok with
\* the total equal to the buffer's length and the whole buffer in the file.
C18_PartialWrites ==
    /\ [](txpc = "committing" =>
            /\ total_written <= Len(borrow_bytes(uncommitted_pages))
            /\ Len(file) >= prior_page_n * PAGE_SIZE + total_written
            /\ ExtentAt(file, prior_page_n * PAGE_SIZE, total_written)
                 = SubSeq(borrow_bytes(uncommitted_pages), 1, total_written))
    /\ []((last.op = "commit" /\ last.ret = "ok") =>
            /\ total_written = Len(borrow_bytes(last.before))
            /\ ExtentAt(file, prior_page_n * PAGE_SIZE, total_written)
                 = borrow_bytes(last.before))
    /\ [][total_written' > total_written =>
            /\ txpc' = "committing"
            /\ last' = last
            /\ \A i \in 1..Len(file') :
                 (\/ i <= prior_page_n * PAGE_SIZE + total_written
                  \/ i > prior_page_n * PAGE_SIZE + total_written')
                     => (i <= Len(file) /\ file'[i] = file[i])]_vars

\* commit returned Ok after a write_at that wrote less than it was given
C18_Witness ==
    /\ last.op = "commit" /\ last.ret = "ok"
    /\ short
    /\ Len(last.before) >= 2

\* C19: get_chunk makes at most overflow count + 1 reads (one when the first
\* read fails); while it goes on reading every read so far added a whole page
\* and pages are still missing; a chunk is returned only with all its pages;
\* and a call at or past the end of the file, or for a chunk the file ends
\* within, fails (OutOfPages, or Io when read_at failed).
C19_GetChunkTerminates ==
    /\ rd.reads <= (IF rd.total = 0 THEN 1 ELSE rd.total)
    /\ rd.pc = "more" =>
          /\ rd.reads >= 1
          /\ NPages(rd.pages) >= rd.reads
          /\ NPages(rd.pages) < rd.total
    /\ (rd.pc = "done" /\ rd.res.kind \in {"Ok", "BadChecksum"}) =>
          (rd.total >= 1 /\ NPages(rd.pages) >= rd.total)
    /\ (rd.pc = "done" /\ (\/ rd.idx >= NPages(file)
                            \/ rd.idx + rd.total > NPages(file))) =>
          rd.res.kind \in {"OutOfPages", "Io"}

\* the file ended within the declared chunk: the second read found no page
C19_Witness ==
    /\ rd.pc = "done"
    /\ rd.res.kind = "OutOfPages"
    /\ rd.total >= 2
    /\ rd.reads = rd.total
    /\ rd.idx + rd.total > NPages(file)

\* C20: while a transaction is open or being committed page_len is its
\* prior_page_n, and the length commit re-reads is prior_page_n too; the
\* index append_chunk computes is prior_page_n plus the pages buffered before
\* it; a successful commit has put buffer page k at page prior_page_n + k - 1
\* of the file; and page_len changes only in the step in which a commit
\* returns Ok, to prior_page_n plus the buffered pages.
C20_SingleWriter ==
    /\ [](txpc \in {"open", "committing"} => page_len = prior_page_n)
    /\ [](txpc = "committing" => existing_len = prior_page_n)
    /\ [](last.op = "append_chunk" =>
            /\ txpc \in {"open", "committing"}
            /\ last.idx = prior_page_n + Len(last.before))
    /\ []((last.op = "commit" /\ last.ret = "ok") =>
            \A k \in 1..Len(last.before) :
               ExtentAt(file, (prior_page_n + k - 1) * PAGE_SIZE, PAGE_SIZE)
                 = last.before[k])
    /\ [][page_len' /= page_len =>
            /\ txpc = "committing"
            /\ last'.op = "commit" /\ last'.ret = "ok"
            /\ page_len' = prior_page_n + Len(uncommitted_pages)]_vars

\* a commit of two appends on a store that already held pages returned Ok
C20_Witness ==
    /\ last.op = "commit" /\ last.ret = "ok"
    /\ Len(appended) >= 2
    /\ prior_page_n > 0
    /\ page_len = prior_page_n + Len(last.before)

\* C21: a get_chunk that returns a payload was made for a chunk that lies
\* below page_len: pages a commit has written but not yet made valid, or
\* that a failed commit left in the file, are never returned.
C21_NoUncommittedRead ==
    (rd.pc = "done" /\ rd.res.kind = "Ok") => rd.idx + rd.total <= page_len

====
